---- MODULE Spec2Model ----
(***************************************************************************)
(* Model of src/rules/import-path-order.js: the import-path-order rule.    *)
(* A document is a sequence of atoms (statements, newlines, spaces,        *)
(* comments, other code); the rule instance scans its import statements in *)
(* document order, reports diagnostics, and the fixes of the reports can   *)
(* be applied to the document, after which the document is scanned again.  *)
(* Strings are sequences of one-character strings.                         *)
(***************************************************************************)
EXTENDS Integers, Sequences, FiniteSets, TLC

(* ------------------------------------------------------------------ *)
(* Bounds of the model                                                 *)
(* ------------------------------------------------------------------ *)
\* largest number of "../" segments of a generated source
MaxUp == 2
\* largest number of newlines of a generated gap between two statements
MaxNewlines == 4

(* ------------------------------------------------------------------ *)
(* Program constants                                                   *)
(* ------------------------------------------------------------------ *)
MESSAGE_ID_BLANKLINES == "import-path-blanklines"
MESSAGE_ID_DEPTH == "import-path-order-depth"
MESSAGE_ID_GROUP == "import-path-order-group"
MESSAGE_ID_ORDER == "import-path-order"

GROUP_BUILTIN == 1
GROUP_ABSOLUTE == 2
GROUP_PARENT == 3
GROUP_SIBLING == 4

GROUP_NAMES ==
  [g \in 1..4 |->
     CASE g = 1 -> <<"B","u","i","l","t","-","i","n">>
       [] g = 2 -> <<"A","b","s","o","l","u","t","e">>
       [] g = 3 -> <<"R","e","l","a","t","i","v","e">>
       [] g = 4 -> <<"S","i","b","l","i","n","g">>]

COMPARATOR_CASE_SENSITIVE == "case-sensitive"
COMPARATOR_CASE_INSENSITIVE == "case-insensitive"
COMPARATOR_CASE_PARTS == "parts"
COMPARATOR_CASE_OFF == "off"

(* ------------------------------------------------------------------ *)
(* JavaScript strings                                                  *)
(* ------------------------------------------------------------------ *)
\* UTF-16 code unit of each character the model uses
CharCode(c) ==
  CASE c = "-" -> 45 [] c = "." -> 46 [] c = "/" -> 47
    [] c = "A" -> 65 [] c = "B" -> 66 [] c = "R" -> 82 [] c = "S" -> 83
    [] c = "a" -> 97 [] c = "b" -> 98 [] c = "c" -> 99 [] c = "e" -> 101
    [] c = "f" -> 102 [] c = "g" -> 103 [] c = "i" -> 105 [] c = "l" -> 108
    [] c = "n" -> 110 [] c = "o" -> 111 [] c = "r" -> 114 [] c = "s" -> 115
    [] c = "t" -> 116 [] c = "u" -> 117 [] c = "v" -> 118

\* String.prototype.toLowerCase, one character
LowerChar(c) ==
  CASE c = "A" -> "a" [] c = "B" -> "b" [] c = "R" -> "r" [] c = "S" -> "s"
    [] OTHER -> c

\* String.prototype.toLowerCase
ToLowerCase(s) == [i \in 1..Len(s) |-> LowerChar(s[i])]

\* the < operator on two strings: code units compared left to right, a
\* proper prefix is smaller
RECURSIVE StrLess(_, _)
StrLess(s, t) ==
  IF t = <<>> THEN FALSE
  ELSE IF s = <<>> THEN TRUE
  ELSE IF CharCode(Head(s)) # CharCode(Head(t))
       THEN CharCode(Head(s)) < CharCode(Head(t))
       ELSE StrLess(Tail(s), Tail(t))

\* whether s holds sep at position i (1-based)
HasAt(s, sep, i) ==
  /\ i + Len(sep) - 1 <= Len(s)
  /\ SubSeq(s, i, i + Len(sep) - 1) = sep

\* String.prototype.split with a non-empty separator string
RECURSIVE Split(_, _)
Split(s, sep) ==
  LET hits == {i \in 1..Len(s) : HasAt(s, sep, i)}
  IN IF hits = {} THEN <<s>>
     ELSE LET i == CHOOSE h \in hits : \A k \in hits : h <= k
          IN <<SubSeq(s, 1, i - 1)>> \o Split(SubSeq(s, i + Len(sep), Len(s)), sep)

\* the match of /^((\.\.\/)+)/ : the longest prefix of s made of "../"
\* repetitions (empty when the pattern does not match)
RECURSIVE RelativeMatch(_)
RelativeMatch(s) ==
  IF HasAt(s, <<".", ".", "/">>, 1)
  THEN <<".", ".", "/">> \o RelativeMatch(SubSeq(s, 4, Len(s)))
  ELSE <<>>

(* ------------------------------------------------------------------ *)
(* Classifier                                                          *)
(* ------------------------------------------------------------------ *)
\* the module names is-builtin-module answers true for, within the model
BuiltinModules == {<<"f", "s">>, <<"o", "s">>}

isBuiltin(source) == source \in BuiltinModules

splitImport(name) == Split(name, <<"-">>)

\* getOrder taking the length of the match array for the depth
getOrder_MatchLength(source) ==
  LET parts == splitImport(source)
      relative == RelativeMatch(source)
  IN IF isBuiltin(source)
     THEN [name |-> source, group |-> GROUP_BUILTIN, depth |-> 0, parts |-> parts]
     ELSE IF HasAt(source, <<".", "/">>, 1)
     THEN [name |-> source, group |-> GROUP_SIBLING, depth |-> 0, parts |-> parts]
     ELSE IF relative # <<>>
     THEN [name |-> source, group |-> GROUP_PARENT, depth |-> 3, parts |-> parts]
     ELSE [name |-> source, group |-> GROUP_ABSOLUTE, depth |-> 0, parts |-> parts]

getOrder(source) ==
  LET parts == splitImport(source)
      relative == RelativeMatch(source)
  IN IF isBuiltin(source)
     THEN [name |-> source, group |-> GROUP_BUILTIN, depth |-> 0, parts |-> parts]
     ELSE IF HasAt(source, <<".", "/">>, 1)
     THEN [name |-> source, group |-> GROUP_SIBLING, depth |-> 0, parts |-> parts]
     ELSE IF relative # <<>>
     THEN [name |-> source, group |-> GROUP_PARENT,
           depth |-> Len(Split(relative, <<".", ".">>)), parts |-> parts]
     ELSE [name |-> source, group |-> GROUP_ABSOLUTE, depth |-> 0, parts |-> parts]

(* ------------------------------------------------------------------ *)
(* Comparators                                                         *)
(* ------------------------------------------------------------------ *)
\* alphaSensitive with the two results exchanged
alphaSensitive_Exchanged(prev, next) ==
  IF prev.name = next.name THEN 0
  ELSE IF StrLess(prev.name, next.name) THEN 1
  ELSE -1

alphaSensitive(prev, next) ==
  IF prev.name = next.name THEN 0
  ELSE IF StrLess(prev.name, next.name) THEN -1
  ELSE 1

\* alphaInsensitive without the folding of the two names
alphaInsensitive_NoFold(prev, next) ==
  IF prev.name = next.name THEN 0
  ELSE IF StrLess(prev.name, next.name) THEN -1
  ELSE 1

alphaInsensitive(prev, next) ==
  LET prevName == ToLowerCase(prev.name)
      nextName == ToLowerCase(next.name)
  IN IF prevName = nextName THEN 0
     ELSE IF StrLess(prevName, nextName) THEN -1
     ELSE 1

alphaOff == 0

\* the value undefined of a missing table entry
Undefined == -1

\* The tables of partsSeen are object literals, which inherit the properties
\* of Object.prototype: the tokens of the model that name one of them
ObjectPrototypeKeys == {<<"c", "o", "n", "s", "t", "r", "u", "c", "t", "o", "r">>}

\* the value of an inherited property, which is no number
Inherited == -2

\* partsSeen[depth][part], depth counted from 1 here
Score(seen, depth, part) ==
  IF depth <= Len(seen) /\ part \in DOMAIN seen[depth]
  THEN seen[depth][part]
  ELSE IF depth <= Len(seen) /\ part \in ObjectPrototypeKeys
  THEN Inherited
  ELSE Undefined

\* a < b on two scores: false when either is undefined, and when either is
\* the one inherited property of the model (a function, which converts to NaN
\* against a number and is not smaller than itself)
ScoreLess(a, b) == a >= 0 /\ b >= 0 /\ a < b

Min(a, b) == IF a < b THEN a ELSE b

\* the loop of partsComparator from position depth on, exact being the
\* flag carried into this iteration; the result is what the function returns
RECURSIVE PartsLoop(_, _, _, _, _, _)
PartsLoop(prevParts, nextParts, seen, depth, length, exact) ==
  IF depth > length
  THEN (IF exact THEN 0 ELSE 1)
  ELSE LET prevPart == prevParts[depth]
           nextPart == nextParts[depth]
           exact2 == exact /\ prevPart = nextPart
       IN IF exact2
          THEN PartsLoop(prevParts, nextParts, seen, depth + 1, length, exact2)
          ELSE IF ScoreLess(Score(seen, depth, prevPart), Score(seen, depth, nextPart))
          THEN -1
          ELSE PartsLoop(prevParts, nextParts, seen, depth + 1, length, exact2)

partsComparator(prev, next, seen) ==
  PartsLoop(prev.parts, next.parts, seen, 1,
            Min(Len(prev.parts), Len(next.parts)), TRUE)

Comparators ==
  {COMPARATOR_CASE_SENSITIVE, COMPARATOR_CASE_INSENSITIVE,
   COMPARATOR_CASE_PARTS, COMPARATOR_CASE_OFF}

\* what getAlphabetize throws for an option it does not know
InvalidAlphabetize == "Error: Invalid alphabetize option"

\* getAlphabetize falling back to the default comparator
getAlphabetize_Fallback(option) ==
  IF option \in Comparators THEN option ELSE COMPARATOR_CASE_SENSITIVE

\* getAlphabetize: the comparator selected (by its name), or the error thrown
getAlphabetize(option) ==
  CASE option = COMPARATOR_CASE_INSENSITIVE -> COMPARATOR_CASE_INSENSITIVE
    [] option = COMPARATOR_CASE_SENSITIVE -> COMPARATOR_CASE_SENSITIVE
    [] option = COMPARATOR_CASE_PARTS -> COMPARATOR_CASE_PARTS
    [] option = COMPARATOR_CASE_OFF -> COMPARATOR_CASE_OFF
    [] OTHER -> InvalidAlphabetize

\* the comparator getAlphabetize selected, applied
alphabetize(option, prev, next, seen) ==
  CASE option = COMPARATOR_CASE_INSENSITIVE -> alphaInsensitive(prev, next)
    [] option = COMPARATOR_CASE_SENSITIVE -> alphaSensitive(prev, next)
    [] option = COMPARATOR_CASE_PARTS -> partsComparator(prev, next, seen)
    [] option = COMPARATOR_CASE_OFF -> alphaOff

(* ------------------------------------------------------------------ *)
(* Sequence checker                                                    *)
(* ------------------------------------------------------------------ *)
\* null is <<>>, a value v is <<v>>
Null == <<>>

NoData == [earlier |-> <<>>, later |-> <<>>]

\* getInvalidOrderReport falling through to the depth and name checks when
\* the groups ascend
getInvalidOrderReport_FallThrough(prev, next, option, seen) ==
  IF prev = Null THEN Null
  ELSE LET p == prev[1]
       IN IF p.group > next.group
          THEN <<[messageId |-> MESSAGE_ID_GROUP,
                  data |-> [earlier |-> GROUP_NAMES[next.group],
                            later |-> ToLowerCase(GROUP_NAMES[p.group])]]>>
          ELSE IF p.depth < next.depth
          THEN <<[messageId |-> MESSAGE_ID_DEPTH, data |-> NoData]>>
          ELSE IF p.depth # next.depth
          THEN Null
          ELSE IF alphabetize(option, next, p, seen) < 0
          THEN <<[messageId |-> MESSAGE_ID_ORDER, data |-> NoData]>>
          ELSE Null

\* getInvalidOrderReport with the two group names of the message exchanged
getInvalidOrderReport_NamesExchanged(prev, next, option, seen) ==
  IF prev = Null THEN Null
  ELSE LET p == prev[1]
       IN IF p.group # next.group
          THEN (IF p.group > next.group
                THEN <<[messageId |-> MESSAGE_ID_GROUP,
                        data |-> [earlier |-> GROUP_NAMES[p.group],
                                  later |-> ToLowerCase(GROUP_NAMES[next.group])]]>>
                ELSE Null)
          ELSE IF p.depth < next.depth
          THEN <<[messageId |-> MESSAGE_ID_DEPTH, data |-> NoData]>>
          ELSE IF p.depth # next.depth
          THEN Null
          ELSE IF alphabetize(option, next, p, seen) < 0
          THEN <<[messageId |-> MESSAGE_ID_ORDER, data |-> NoData]>>
          ELSE Null

\* the message of getInvalidOrderReport, or Null; prev is Null or <<key>>
getInvalidOrderReport(prev, next, option, seen) ==
  IF prev = Null THEN Null
  ELSE LET p == prev[1]
       IN IF p.group # next.group
          THEN (IF p.group > next.group
                THEN <<[messageId |-> MESSAGE_ID_GROUP,
                        data |-> [earlier |-> GROUP_NAMES[next.group],
                                  later |-> ToLowerCase(GROUP_NAMES[p.group])]]>>
                ELSE Null)
          ELSE IF p.depth < next.depth
          THEN <<[messageId |-> MESSAGE_ID_DEPTH, data |-> NoData]>>
          ELSE IF p.depth # next.depth
          THEN Null
          ELSE IF alphabetize(option, next, p, seen) < 0
          THEN <<[messageId |-> MESSAGE_ID_ORDER, data |-> NoData]>>
          ELSE Null

(* ------------------------------------------------------------------ *)
(* Documents: the host's source text, tokens, comments and positions   *)
(* ------------------------------------------------------------------ *)
\* An atom is one newline, one space, one line comment, one one-line block
\* comment, one token of other code, or one import statement (on one line).
\* Atom k of a document has the range [k-1, k]; a node is its atom's index.
Atom(t) == [t |-> t, src |-> <<>>]
Stmt(s) == [t |-> "stmt", src |-> s]
NL == Atom("nl")
SP == Atom("sp")
LC == Atom("lc")
BC == Atom("bc")
CODE == Atom("code")

IsComment(a) == a.t \in {"lc", "bc"}
IsToken(a) == a.t \in {"code", "stmt"}

\* loc.start.line and loc.end.line of atom k (every atom lies on one line)
LineOf(d, k) == 1 + Cardinality({j \in 1..(k - 1) : d[j].t = "nl"})

\* sourceCode.getIndexFromLoc({line, column: 0})
getIndexFromLoc(d, line) ==
  IF line = 1 THEN 0
  ELSE CHOOSE j \in 1..Len(d) : d[j].t = "nl" /\ LineOf(d, j) = line - 1

\* sourceCode.getTokenByRangeStart(index, {includeComments: true}): Null or
\* <<k>>, the token or comment atom k that starts at index
getTokenByRangeStart(d, index) ==
  IF index + 1 <= Len(d) /\ (IsToken(d[index + 1]) \/ IsComment(d[index + 1]))
  THEN <<index + 1>>
  ELSE Null

\* the type of a token or comment
TypeOf(a) ==
  CASE a.t = "lc" -> "Line"
    [] a.t = "bc" -> "Block"
    [] a.t = "code" -> "Identifier"
    [] a.t = "stmt" -> "Keyword"

\* sourceCode.getTokensBetween(nodePrev, nodeNext)
getTokensBetween(d, nodePrev, nodeNext) ==
  {k \in (nodePrev + 1)..(nodeNext - 1) : IsToken(d[k])}

\* sourceCode.commentsExistBetween(nodePrev, nodeNext)
commentsExistBetween(d, nodePrev, nodeNext) ==
  \E k \in (nodePrev + 1)..(nodeNext - 1) : IsComment(d[k])

\* sourceCode.getComments(node).leading: the comments before the node, back
\* to the nearest token
LeadingComments(d, node) ==
  {k \in 1..(node - 1) :
     /\ IsComment(d[k])
     /\ \A j \in (k + 1)..(node - 1) : ~IsToken(d[j])}

\* sourceCode.getComments(node).trailing: the comments after the node, up to
\* the nearest token
TrailingComments(d, node) ==
  {k \in (node + 1)..Len(d) :
     /\ IsComment(d[k])
     /\ \A j \in (node + 1)..(k - 1) : ~IsToken(d[j])}

\* the import statements of the document, in document order
RECURSIVE StmtsFrom(_, _)
StmtsFrom(d, k) ==
  IF k > Len(d) THEN <<>>
  ELSE IF d[k].t = "stmt" THEN <<k>> \o StmtsFrom(d, k + 1)
  ELSE StmtsFrom(d, k + 1)

Stmts(d) == StmtsFrom(d, 1)

(* ------------------------------------------------------------------ *)
(* Blank-line checker                                                  *)
(* ------------------------------------------------------------------ *)
\* the for loop of getInvalidBlankLinesReport from line on
RECURSIVE BlankLinesLoop(_, _, _, _)
BlankLinesLoop(d, prevEndLine, nextStartLine, line) ==
  IF ~(line < nextStartLine) THEN Null
  ELSE LET index == getIndexFromLoc(d, prevEndLine + 1)
           lineContents == getTokenByRangeStart(d, index)
           contentType == IF lineContents = Null THEN "undefined"
                          ELSE TypeOf(d[lineContents[1]])
           contentEndLine == IF lineContents = Null THEN Undefined
                             ELSE LineOf(d, lineContents[1])
       IN IF contentType = "Line" /\ line = contentEndLine
          THEN BlankLinesLoop(d, prevEndLine, nextStartLine, line + 1)
          ELSE IF contentType = "Block"
          THEN BlankLinesLoop(d, prevEndLine, nextStartLine, line + 1)
          ELSE <<[loc |-> <<line, line + 1>>, messageId |-> MESSAGE_ID_BLANKLINES]>>

\* nodePrev is 0 for null
getInvalidBlankLinesReport(d, nodePrev, nodeNext) ==
  IF nodePrev = 0 THEN Null
  ELSE LET prevEndLine == LineOf(d, nodePrev)
           nextStartLine == LineOf(d, nodeNext)
       IN IF prevEndLine + 1 = nextStartLine THEN Null
          ELSE BlankLinesLoop(d, prevEndLine, nextStartLine, prevEndLine + 1)

(* ------------------------------------------------------------------ *)
(* Rewriter                                                            *)
(* ------------------------------------------------------------------ *)
\* the three fixer calls the rule uses, as edits
insertTextBeforeRange(range, text) == [range |-> <<range[1], range[1]>>, text |-> text]
removeRange(range) == [range |-> range, text |-> <<>>]
replaceTextRange(range, text) == [range |-> range, text |-> text]

\* source.substring(start, end)
Substring(d, start, end) == SubSeq(d, start + 1, end)

\* the end (last position) of the run of newlines that starts at i
RECURSIVE RunEnd(_, _)
RunEnd(text, i) ==
  IF i + 1 <= Len(text) /\ text[i + 1].t = "nl" THEN RunEnd(text, i + 1) ELSE i

\* text.replace(re, '\n') for re = /\n+/ (least = 1) and /\n\n+/ (least = 2):
\* the first run of at least `least` newlines becomes one newline
ReplaceNewlines(text, least) ==
  LET starts == {i \in 1..Len(text) :
                   /\ text[i].t = "nl"
                   /\ RunEnd(text, i) - i + 1 >= least}
  IN IF starts = {} THEN text
     ELSE LET i == CHOOSE h \in starts : \A k \in starts : h <= k
          IN SubSeq(text, 1, i - 1) \o <<NL>>
               \o SubSeq(text, RunEnd(text, i) + 1, Len(text))

\* swapNodeLocation without the check of next's trailing comments
swapNodeLocation_NoTrailingCheck(d, nodePrev, nodeNext) ==
  IF getTokensBetween(d, nodePrev, nodeNext) # {} THEN <<>>
  ELSE IF commentsExistBetween(d, nodePrev, nodeNext) THEN <<>>
  ELSE IF LeadingComments(d, nodePrev) # {} THEN <<>>
  ELSE LET text1 == ReplaceNewlines(Substring(d, nodePrev, nodeNext), 1)
           text2 == IF text1[1].t = "nl" THEN Tail(text1) \o <<NL>> ELSE text1
       IN <<insertTextBeforeRange(<<nodePrev - 1, nodePrev>>, text2),
            removeRange(<<nodePrev, nodeNext>>)>>

\* the edits swapNodeLocation returns; <<>> when it returns nothing
swapNodeLocation(d, nodePrev, nodeNext) ==
  IF getTokensBetween(d, nodePrev, nodeNext) # {} THEN <<>>
  ELSE IF commentsExistBetween(d, nodePrev, nodeNext) THEN <<>>
  ELSE IF LeadingComments(d, nodePrev) # {} THEN <<>>
  ELSE IF TrailingComments(d, nodeNext) # {} THEN <<>>
  ELSE LET insertStart == nodePrev - 1
           insertEnd == nodePrev
           start == nodePrev
           end == nodeNext
           text1 == ReplaceNewlines(Substring(d, start, end), 1)
           text2 == IF text1[1].t = "nl" THEN Tail(text1) \o <<NL>> ELSE text1
       IN <<insertTextBeforeRange(<<insertStart, insertEnd>>, text2),
            removeRange(<<start, end>>)>>

\* the edit removeBlankLines returns
removeBlankLines(d, nodePrev, nodeNext) ==
  LET start == nodePrev
      end == nodeNext - 1
      text == ReplaceNewlines(Substring(d, start, end), 2)
  IN <<replaceTextRange(<<start, end>>, text)>>

\* the text after one edit
ApplyEdit(d, e) ==
  SubSeq(d, 1, e.range[1]) \o e.text \o SubSeq(d, e.range[2] + 1, Len(d))

\* the text after the edits of one fix, which do not overlap: the host
\* applies them together, here from the last range to the first
RECURSIVE ApplyFix(_, _)
ApplyFix(d, edits) ==
  IF edits = <<>> THEN d
  ELSE LET i == CHOOSE h \in 1..Len(edits) :
                  \A k \in 1..Len(edits) : edits[k].range[1] <= edits[h].range[1]
           rest == [k \in 1..(Len(edits) - 1) |->
                      IF k < i THEN edits[k] ELSE edits[k + 1]]
       IN ApplyFix(ApplyEdit(d, edits[i]), rest)

(* ------------------------------------------------------------------ *)
(* Inputs: the documents and options the rule is run on                *)
(* ------------------------------------------------------------------ *)
Letters == {"a", "b", "c", "A", "B"}
PartLetters == {"a", "b"}

\* k times "../"
RECURSIVE Ups(_)
Ups(k) == IF k = 0 THEN <<>> ELSE <<".", ".", "/">> \o Ups(k - 1)

Bodies ==
  {<<l>> : l \in Letters} \cup {<<x, "-", y>> : x \in PartLetters, y \in PartLetters}

Prefixes == {<<>>, <<".", "/">>} \cup {Ups(k) : k \in 1..MaxUp}

Sources == BuiltinModules \cup {p \o b : p \in Prefixes, b \in Bodies}

\* the sources of the three-statement documents
TripleSources ==
  {<<"f", "s">>, <<".", "/", "a">>, <<".", "/", "b">>}
    \cup {<<x>> : x \in PartLetters}
    \cup {<<x, "-", y>> : x \in PartLetters, y \in PartLetters}
    \cup {Ups(k) \o <<"a">> : k \in 1..MaxUp}
    \cup {<<"a", "-">> \o k : k \in ObjectPrototypeKeys}

PairDocs == {<<Stmt(s1), NL, Stmt(s2)>> : s1 \in Sources, s2 \in Sources}

TripleDocs ==
  {<<Stmt(s1), NL, Stmt(s2), NL, Stmt(s3)>> :
     s1 \in TripleSources, s2 \in TripleSources, s3 \in TripleSources}

\* what a line between two statements holds
LineContents == {<<>>, <<SP>>, <<LC>>, <<BC>>}
\* what follows the earlier statement on its line
FirstContents == {<<>>, <<SP>>, <<SP, CODE>>}
\* what precedes the later statement on its line
LastContents == {<<>>, <<SP>>}

\* the texts of n whole lines, each ended by its newline
RECURSIVE LinesOf(_)
LinesOf(n) ==
  IF n = 0 THEN {<<>>}
  ELSE {l \o <<NL>> \o rest : l \in LineContents, rest \in LinesOf(n - 1)}

\* the gaps with n newlines
GapsOf(n) ==
  IF n = 0 THEN FirstContents
  ELSE {f \o <<NL>> \o ls \o l :
          f \in FirstContents, ls \in LinesOf(n - 1), l \in LastContents}

Gaps == UNION {GapsOf(n) : n \in 0..MaxNewlines}

\* a comment before the first statement, or after the last one, or neither
Margins == {<<<<>>, <<>>>>, <<<<LC, NL>>, <<>>>>, <<<<>>, <<SP, LC>>>>}

GapDocs ==
  {m[1] \o <<Stmt(<<".", "/", "b">>)>> \o g \o <<Stmt(<<".", "/", "a">>)>> \o m[2] :
     m \in Margins, g \in Gaps}

Docs == PairDocs \cup TripleDocs \cup GapDocs

\* context.options[0] as given: a field is <<>> when absent, <<v>> when set.
\* The sets: every recognised comparator with either allowBlankLines, no
\* options at all, and an unrecognised alphabetize value.
OptionSets ==
  {[alphabetize |-> <<c>>, allowBlankLines |-> <<b>>] : c \in Comparators, b \in BOOLEAN}
    \cup {[alphabetize |-> <<>>, allowBlankLines |-> <<>>]}
    \cup {[alphabetize |-> <<"alphabetical">>, allowBlankLines |-> <<>>]}

(* ------------------------------------------------------------------ *)
(* Scan driver                                                         *)
(* ------------------------------------------------------------------ *)
VARIABLES
  doc,              \* the source text the rule instance is created on
  options,          \* context.options[0] as given
  pc,               \* "new" before create, "ready" after it, "threw" when it threw
  alphabetizeOption,\* options[0].alphabetize, or its default
  allowBlankLines,  \* options[0].allowBlankLines, or its default
  orderPrev,        \* Null or <<the ordering key of the previous statement>>
  nodePrev,         \* 0 (null) or the previous statement node
  partsSeen,        \* per token position, the rank of each token seen there
  partsMaxDepth,    \* per token position, the next rank to hand out
  reports,          \* the diagnostics reported so far, in report order
  visited,          \* how many import statements the traversal has visited
  fixed             \* the fix applied before this scan, if any

vars == <<doc, options, pc, alphabetizeOption, allowBlankLines, orderPrev, nodePrev,
          partsSeen, partsMaxDepth, reports, visited, fixed>>

EmptyTable == [x \in {} |-> 0]

\* the forEach of runRule over orderNext.parts, from position i on; the
\* result is <<partsSeen, partsMaxDepth>>
RECURSIVE SeedParts(_, _, _, _)
SeedParts(seen, maxDepth, parts, i) ==
  IF i > Len(parts) THEN <<seen, maxDepth>>
  ELSE LET group == parts[i]
           seen1 == IF i > Len(seen) THEN Append(seen, EmptyTable) ELSE seen
           max1 == IF i > Len(seen) THEN Append(maxDepth, 0) ELSE maxDepth
       IN IF Score(seen1, i, group) = Undefined
          THEN SeedParts([seen1 EXCEPT ![i] = (group :> max1[i]) @@ seen1[i]],
                         [max1 EXCEPT ![i] = max1[i] + 1], parts, i + 1)
          ELSE SeedParts(seen1, max1, parts, i + 1)

NoFixed == [kind |-> "none", prev |-> 0, next |-> 0, before |-> <<>>]

\* the state create() sets up
Created ==
  /\ orderPrev = Null
  /\ nodePrev = 0
  /\ partsSeen = <<>>
  /\ partsMaxDepth = <<>>
  /\ reports = <<>>
  /\ visited = 0

\* the host has the text and the options and has not created the rule yet
Init ==
  /\ doc \in Docs
  /\ options \in OptionSets
  /\ pc = "new"
  /\ alphabetizeOption = "undefined"
  /\ allowBlankLines = FALSE
  /\ fixed = NoFixed
  /\ Created

\* create: the options with their defaults, the lookback state, then
\* getAlphabetize, which throws on an option it does not know
create ==
  /\ pc = "new"
  /\ LET option == IF options.alphabetize = <<>> THEN COMPARATOR_CASE_SENSITIVE
                   ELSE options.alphabetize[1]
         allow == IF options.allowBlankLines = <<>> THEN FALSE
                  ELSE options.allowBlankLines[1]
     IN /\ allowBlankLines' = allow
        /\ IF getAlphabetize(option) = InvalidAlphabetize
           THEN pc' = "threw" /\ alphabetizeOption' = option
           ELSE pc' = "ready" /\ alphabetizeOption' = getAlphabetize(option)
  /\ UNCHANGED <<doc, options, orderPrev, nodePrev, partsSeen, partsMaxDepth,
                 reports, visited, fixed>>

\* runRule running the blank-line checker whatever allowBlankLines is
RuleReports_IgnoreAllow(d, prevKey, prevNode, nodeNext, orderNext, option, allow, seen) ==
  LET message == getInvalidOrderReport(prevKey, orderNext, option, seen)
      blankLinesMessage == getInvalidBlankLinesReport(d, prevNode, nodeNext)
      orderReports ==
        IF message # Null
        THEN <<[messageId |-> message[1].messageId, data |-> message[1].data,
                loc |-> <<0, 0>>, prev |-> prevNode, next |-> nodeNext,
                fix |-> swapNodeLocation(d, prevNode, nodeNext)]>>
        ELSE <<>>
      blankReports ==
        IF blankLinesMessage # Null
        THEN <<[messageId |-> blankLinesMessage[1].messageId, data |-> NoData,
                loc |-> blankLinesMessage[1].loc, prev |-> prevNode, next |-> nodeNext,
                fix |-> removeBlankLines(d, prevNode, nodeNext)]>>
        ELSE <<>>
  IN orderReports \o blankReports

\* the diagnostics one call of runRule reports
RuleReports(d, prevKey, prevNode, nodeNext, orderNext, option, allow, seen) ==
  LET message == getInvalidOrderReport(prevKey, orderNext, option, seen)
      blankLinesMessage == getInvalidBlankLinesReport(d, prevNode, nodeNext)
      orderReports ==
        IF message # Null
        THEN <<[messageId |-> message[1].messageId, data |-> message[1].data,
                loc |-> <<0, 0>>, prev |-> prevNode, next |-> nodeNext,
                fix |-> swapNodeLocation(d, prevNode, nodeNext)]>>
        ELSE <<>>
      blankReports ==
        IF ~allow /\ blankLinesMessage # Null
        THEN <<[messageId |-> blankLinesMessage[1].messageId, data |-> NoData,
                loc |-> blankLinesMessage[1].loc, prev |-> prevNode, next |-> nodeNext,
                fix |-> removeBlankLines(d, prevNode, nodeNext)]>>
        ELSE <<>>
  IN orderReports \o blankReports

\* runRule keeping the previous key as lookback when it reported an order
\* diagnostic
runRule_KeepsPrevOnReport ==
  /\ pc = "ready"
  /\ visited < Len(Stmts(doc))
  /\ LET nodeNext == Stmts(doc)[visited + 1]
         orderNext == getOrder(doc[nodeNext].src)
         seeded == SeedParts(partsSeen, partsMaxDepth, orderNext.parts, 1)
     IN /\ partsSeen' = seeded[1]
        /\ partsMaxDepth' = seeded[2]
        /\ reports' = reports \o RuleReports(doc, orderPrev, nodePrev, nodeNext, orderNext,
                                             alphabetizeOption, allowBlankLines, seeded[1])
        /\ orderPrev' = IF getInvalidOrderReport(orderPrev, orderNext, alphabetizeOption,
                                                 seeded[1]) # Null
                        THEN orderPrev ELSE <<orderNext>>
        /\ nodePrev' = nodeNext
        /\ visited' = visited + 1
  /\ UNCHANGED <<doc, options, pc, alphabetizeOption, allowBlankLines, fixed>>

\* one of the three selectors matches the next import statement: runRule
runRule ==
  /\ pc = "ready"
  /\ visited < Len(Stmts(doc))
  /\ LET nodeNext == Stmts(doc)[visited + 1]
         orderNext == getOrder(doc[nodeNext].src)
         seeded == SeedParts(partsSeen, partsMaxDepth, orderNext.parts, 1)
     IN /\ partsSeen' = seeded[1]
        /\ partsMaxDepth' = seeded[2]
        /\ reports' = reports \o RuleReports(doc, orderPrev, nodePrev, nodeNext, orderNext,
                                             alphabetizeOption, allowBlankLines, seeded[1])
        /\ orderPrev' = <<orderNext>>
        /\ nodePrev' = nodeNext
        /\ visited' = visited + 1
  /\ UNCHANGED <<doc, options, pc, alphabetizeOption, allowBlankLines, fixed>>

OrderIds == {MESSAGE_ID_GROUP, MESSAGE_ID_DEPTH, MESSAGE_ID_ORDER}

\* the scan is over and the host applies the fix of one order diagnostic,
\* then creates the rule anew on the fixed text
ApplySwapFix ==
  /\ pc = "ready"
  /\ visited = Len(Stmts(doc))
  /\ \E i \in 1..Len(reports) :
       /\ reports[i].messageId \in OrderIds
       /\ reports[i].fix # <<>>
       /\ doc' = ApplyFix(doc, reports[i].fix)
       /\ fixed' = [kind |-> "swap", prev |-> reports[i].prev,
                    next |-> reports[i].next, before |-> doc]
  /\ orderPrev' = Null
  /\ nodePrev' = 0
  /\ partsSeen' = <<>>
  /\ partsMaxDepth' = <<>>
  /\ reports' = <<>>
  /\ visited' = 0
  /\ UNCHANGED <<options, pc, alphabetizeOption, allowBlankLines>>

\* the same for the fix of one blank-lines diagnostic
ApplyBlankLinesFix ==
  /\ pc = "ready"
  /\ visited = Len(Stmts(doc))
  /\ \E i \in 1..Len(reports) :
       /\ reports[i].messageId = MESSAGE_ID_BLANKLINES
       /\ doc' = ApplyFix(doc, reports[i].fix)
       /\ fixed' = [kind |-> "collapse", prev |-> reports[i].prev,
                    next |-> reports[i].next, before |-> doc]
  /\ orderPrev' = Null
  /\ nodePrev' = 0
  /\ partsSeen' = <<>>
  /\ partsMaxDepth' = <<>>
  /\ reports' = <<>>
  /\ visited' = 0
  /\ UNCHANGED <<options, pc, alphabetizeOption, allowBlankLines>>

Next == create \/ runRule \/ ApplySwapFix \/ ApplyBlankLinesFix

Spec == Init /\ [][Next]_vars

(* ------------------------------------------------------------------ *)
(* Properties                                                          *)
(* ------------------------------------------------------------------ *)
\* the node and the ordering key of the i-th import statement
NodeAt(d, i) == Stmts(d)[i]
KeyAt(d, i) == getOrder(d[NodeAt(d, i)].src)

\* the reports of the current scan for the statement node `next`
OrderReportsAt(next) ==
  {i \in 1..Len(reports) : reports[i].next = next /\ reports[i].messageId \in OrderIds}
BlankReportsAt(next) ==
  {i \in 1..Len(reports) :
     reports[i].next = next /\ reports[i].messageId = MESSAGE_ID_BLANKLINES}

\* the i with Stmts(d)[i] = node
OrdinalOf(d, node) == CHOOSE i \in 1..Len(Stmts(d)) : Stmts(d)[i] = node

\* the first position at which two parts sequences hold different tokens,
\* 0 when all overlapping positions hold equal tokens
FirstDifference(a, b) ==
  LET diff == {p \in 1..Min(Len(a), Len(b)) : a[p] # b[p]}
  IN IF diff = {} THEN 0 ELSE CHOOSE p \in diff : \A q \in diff : p <= q

\* C1: under the parts comparator, for a same-group same-depth adjacent pair,
\* an alphabetical-order violation is reported exactly when, at the first
\* position where the parts differ, next's token has the lower first-seen
\* rank; a pair whose overlapping positions are all equal reports none.
C1_PartsFirstDifference ==
  \A i \in 2..visited :
    LET prev == KeyAt(doc, i - 1)
        next == KeyAt(doc, i)
        p == FirstDifference(prev.parts, next.parts)
        reported == \E r \in OrderReportsAt(NodeAt(doc, i)) :
                      reports[r].messageId = MESSAGE_ID_ORDER
    IN (/\ alphabetizeOption = COMPARATOR_CASE_PARTS
        /\ visited = i
        /\ prev.group = next.group
        /\ prev.depth = next.depth)
       => IF p = 0 THEN ~reported
          ELSE reported <=> ScoreLess(Score(partsSeen, p, next.parts[p]),
                                      Score(partsSeen, p, prev.parts[p]))

\* C2: after the swap edit of an order violation for (prev, next) is applied,
\* the new scan reports no order violation for the pair (next, prev).
C2_SwapIdempotent ==
  fixed.kind = "swap" =>
    LET j == OrdinalOf(fixed.before, fixed.prev)
    IN visited >= j + 1 => OrderReportsAt(NodeAt(doc, j + 1)) = {}

\* the lines strictly between two statement nodes
LinesBetween(d, prev, next) == (LineOf(d, prev) + 1)..(LineOf(d, next) - 1)

\* a line is comment-occupied when a comment lies on it
CommentOccupied(d, line) ==
  \E k \in 1..Len(d) : IsComment(d[k]) /\ LineOf(d, k) = line

\* C3: with blank lines disallowed, when every line strictly between prev and
\* next is comment-occupied, no blank-lines violation is reported for the pair.
C3_NoFalsePositive ==
  \A i \in 2..visited :
    LET prev == NodeAt(doc, i - 1)
        next == NodeAt(doc, i)
    IN (/\ ~allowBlankLines
        /\ \A l \in LinesBetween(doc, prev, next) : CommentOccupied(doc, l))
       => BlankReportsAt(next) = {}

\* C4: with blank lines disallowed, when some line strictly between prev and
\* next is not comment-occupied, a blank-lines violation is reported for the
\* pair and it is located at the first such line.
C4_NoFalseNegative ==
  \A i \in 2..visited :
    LET prev == NodeAt(doc, i - 1)
        next == NodeAt(doc, i)
        free == {l \in LinesBetween(doc, prev, next) : ~CommentOccupied(doc, l)}
    IN (~allowBlankLines /\ free # {})
       => LET first == CHOOSE l \in free : \A m \in free : l <= m
          IN /\ BlankReportsAt(next) # {}
             /\ \A r \in BlankReportsAt(next) : reports[r].loc = <<first, first + 1>>

\* the number of "../" segments a string starts with
RECURSIVE UpCount(_)
UpCount(s) ==
  IF Len(s) >= 3 /\ s[1] = "." /\ s[2] = "." /\ s[3] = "/"
  THEN 1 + UpCount(SubSeq(s, 4, Len(s)))
  ELSE 0

\* C5: a non-built-in source that starts with k >= 1 "../" segments is
\* classified Relative(parent) with depth k; every other source has depth 0.
C5_ClassifierDepth ==
  orderPrev # Null =>
    LET key == orderPrev[1]
        k == UpCount(key.name)
    IN IF ~isBuiltin(key.name) /\ k >= 1
       THEN key.group = GROUP_PARENT /\ key.depth = k
       ELSE key.depth = 0

\* the i-th and the one before it are the statements named a then b
PairIs(i, a, b) ==
  /\ doc[NodeAt(doc, i - 1)].src = a
  /\ doc[NodeAt(doc, i)].src = b

AlphaReported(i) ==
  \E r \in OrderReportsAt(NodeAt(doc, i)) : reports[r].messageId = MESSAGE_ID_ORDER

\* C6 as stated: under the case-insensitive comparator './B' then './a' and
\* './b' then './A' report no violation, './c' then './a' reports an
\* alphabetical-order violation.
C6_AsStated ==
  \A i \in 2..visited :
    alphabetizeOption = COMPARATOR_CASE_INSENSITIVE =>
      /\ PairIs(i, <<".", "/", "B">>, <<".", "/", "a">>) => OrderReportsAt(NodeAt(doc, i)) = {}
      /\ PairIs(i, <<".", "/", "b">>, <<".", "/", "A">>) => OrderReportsAt(NodeAt(doc, i)) = {}
      /\ PairIs(i, <<".", "/", "c">>, <<".", "/", "a">>) => AlphaReported(i)

\* C6 amended: under the case-insensitive comparator './B' then './a',
\* './b' then './A' and './c' then './a' each report an alphabetical-order
\* violation; pairs equal after folding ('./a' then './A', './A' then './a')
\* and './a' then './B' report none.
C6_CaseInsensitive ==
  \A i \in 2..visited :
    alphabetizeOption = COMPARATOR_CASE_INSENSITIVE =>
      /\ PairIs(i, <<".", "/", "B">>, <<".", "/", "a">>) => AlphaReported(i)
      /\ PairIs(i, <<".", "/", "b">>, <<".", "/", "A">>) => AlphaReported(i)
      /\ PairIs(i, <<".", "/", "c">>, <<".", "/", "a">>) => AlphaReported(i)
      /\ PairIs(i, <<".", "/", "a">>, <<".", "/", "A">>) => OrderReportsAt(NodeAt(doc, i)) = {}
      /\ PairIs(i, <<".", "/", "A">>, <<".", "/", "a">>) => OrderReportsAt(NodeAt(doc, i)) = {}
      /\ PairIs(i, <<".", "/", "a">>, <<".", "/", "B">>) => OrderReportsAt(NodeAt(doc, i)) = {}

C6_Witness ==
  /\ alphabetizeOption = COMPARATOR_CASE_INSENSITIVE
  /\ visited = 2
  /\ PairIs(2, <<".", "/", "B">>, <<".", "/", "a">>)
  /\ AlphaReported(2)

NewlineCount(text) == Cardinality({k \in 1..Len(text) : text[k].t = "nl"})

\* C7: when a swap edit is applied to a pair whose gap holds a newline, the
\* fixed text holds next's statement, then exactly one newline (and nothing
\* but whitespace), then prev's statement.
C7_SwapResult ==
  fixed.kind = "swap" =>
    LET before == fixed.before
        gap == SubSeq(before, fixed.prev + 1, fixed.next - 1)
        j == OrdinalOf(before, fixed.prev)
        first == NodeAt(doc, j)
        second == NodeAt(doc, j + 1)
    IN NewlineCount(gap) >= 1 =>
         /\ doc[first] = before[fixed.next]
         /\ doc[second] = before[fixed.prev]
         /\ NewlineCount(SubSeq(doc, first + 1, second - 1)) = 1

\* the text with every run of newlines collapsed to one newline
RECURSIVE CollapseAll(_)
CollapseAll(text) ==
  IF Len(text) <= 1 THEN text
  ELSE IF text[1].t = "nl" /\ text[2].t = "nl" THEN CollapseAll(Tail(text))
  ELSE <<text[1]>> \o CollapseAll(Tail(text))

\* C8: the collapse-blank-lines edit replaces the gap by the gap with every
\* run of two or more newlines collapsed to one, so the fixed gap holds no two
\* consecutive newlines and the edit generator changes nothing on the fixed
\* text.
C8_CollapseAllRuns ==
  fixed.kind = "collapse" =>
    LET before == fixed.before
        gap == SubSeq(before, fixed.prev + 1, fixed.next - 1)
        j == OrdinalOf(before, fixed.prev)
        first == NodeAt(doc, j)
        second == NodeAt(doc, j + 1)
        newGap == SubSeq(doc, first + 1, second - 1)
    IN /\ newGap = CollapseAll(gap)
       /\ \A k \in 1..(Len(newGap) - 1) : ~(newGap[k].t = "nl" /\ newGap[k + 1].t = "nl")
       /\ ApplyFix(doc, removeBlankLines(doc, first, second)) = doc

\* one of the four conditions under which a swap is unsafe
Unsafe(d, prev, next) ==
  \/ \E k \in (prev + 1)..(next - 1) : IsToken(d[k])
  \/ \E k \in (prev + 1)..(next - 1) : IsComment(d[k])
  \/ LeadingComments(d, prev) # {}
  \/ TrailingComments(d, next) # {}

\* C9: an order diagnostic of an unsafe pair carries no edit, an out-of-order
\* unsafe pair is still reported (without edit), and no swap is ever applied to
\* an unsafe pair.
C9_UnsafeFixRefused ==
  /\ \A r \in 1..Len(reports) :
       (reports[r].messageId \in OrderIds /\ Unsafe(doc, reports[r].prev, reports[r].next))
         => reports[r].fix = <<>>
  /\ \A i \in 2..visited :
       LET prev == KeyAt(doc, i - 1)
           next == KeyAt(doc, i)
       IN (/\ Unsafe(doc, NodeAt(doc, i - 1), NodeAt(doc, i))
           /\ alphabetizeOption = COMPARATOR_CASE_SENSITIVE
           /\ prev.group = next.group /\ prev.depth = next.depth
           /\ StrLess(next.name, prev.name))
          => \E r \in OrderReportsAt(NodeAt(doc, i)) : reports[r].fix = <<>>
  /\ fixed.kind = "swap" => ~Unsafe(fixed.before, fixed.prev, fixed.next)

C9_Witness ==
  \E r \in 1..Len(reports) :
    /\ reports[r].messageId = MESSAGE_ID_ORDER
    /\ reports[r].fix = <<>>
    /\ TrailingComments(doc, reports[r].next) # {}
    /\ LeadingComments(doc, reports[r].prev) = {}
    /\ \A k \in (reports[r].prev + 1)..(reports[r].next - 1) : doc[k].t \in {"nl", "sp"}

\* the names the group-order message carries
EarlierName(g) ==
  CASE g = 1 -> <<"B","u","i","l","t","-","i","n">>
    [] g = 2 -> <<"A","b","s","o","l","u","t","e">>
    [] g = 3 -> <<"R","e","l","a","t","i","v","e">>
    [] g = 4 -> <<"S","i","b","l","i","n","g">>
LaterName(g) ==
  CASE g = 1 -> <<"b","u","i","l","t","-","i","n">>
    [] g = 2 -> <<"a","b","s","o","l","u","t","e">>
    [] g = 3 -> <<"r","e","l","a","t","i","v","e">>
    [] g = 4 -> <<"s","i","b","l","i","n","g">>

\* C10: under every comparator, a pair with prev.group < next.group reports no
\* order violation, and a pair with prev.group > next.group reports exactly a
\* group-order violation naming next's group as earlier and prev's group,
\* lower-cased, as later.
C10_GroupOrderOneWay ==
  \A i \in 2..visited :
    LET prev == KeyAt(doc, i - 1)
        next == KeyAt(doc, i)
        at == OrderReportsAt(NodeAt(doc, i))
    IN /\ prev.group < next.group => at = {}
       /\ prev.group > next.group =>
            /\ Cardinality(at) = 1
            /\ \A r \in at :
                 /\ reports[r].messageId = MESSAGE_ID_GROUP
                 /\ reports[r].data.earlier = EarlierName(next.group)
                 /\ reports[r].data.later = LaterName(prev.group)

C10_Witness ==
  /\ visited = 2
  /\ PairIs(2, <<".", "/", "a">>, <<"f", "s">>)
  /\ \E r \in OrderReportsAt(NodeAt(doc, 2)) :
       /\ reports[r].messageId = MESSAGE_ID_GROUP
       /\ reports[r].data.earlier = <<"B","u","i","l","t","-","i","n">>
       /\ reports[r].data.later = <<"s","i","b","l","i","n","g">>

\* the source of the i-th import statement
SourceAt(d, i) == d[NodeAt(d, i)].src

\* a source of the Relative(parent) group
IsParent(s) == ~isBuiltin(s) /\ UpCount(s) >= 1

DepthReported(i) ==
  \E r \in OrderReportsAt(NodeAt(doc, i)) : reports[r].messageId = MESSAGE_ID_DEPTH

\* C11: within the Relative(parent) group a pair whose prev has fewer "../"
\* segments than next reports a depth-order violation; a pair with equal
\* counts or with more segments in prev reports no depth-order violation, and
\* a pair with more segments in prev reports no order violation at all.
C11_DepthOrder ==
  \A i \in 2..visited :
    LET a == SourceAt(doc, i - 1)
        b == SourceAt(doc, i)
    IN (IsParent(a) /\ IsParent(b)) =>
         /\ UpCount(a) < UpCount(b) => DepthReported(i)
         /\ UpCount(a) >= UpCount(b) => ~DepthReported(i)
         /\ UpCount(a) > UpCount(b) => OrderReportsAt(NodeAt(doc, i)) = {}

C11_Witness ==
  /\ visited = 2
  /\ PairIs(2, <<".", ".", "/", "b">>, <<".", ".", "/", ".", ".", "/", "a">>)
  /\ DepthReported(2)

\* C12: every adjacent pair yields at most one order violation; when the
\* groups differ it can only be the group-order one, when the groups agree
\* and the depths differ only the depth-order one; the first statement of a
\* scan yields none.
C12_OneKindPerPair ==
  \A i \in 1..visited :
    LET at == OrderReportsAt(NodeAt(doc, i))
    IN /\ Cardinality(at) <= 1
       /\ i = 1 => at = {}
       /\ i > 1 =>
            LET prev == KeyAt(doc, i - 1)
                next == KeyAt(doc, i)
            IN /\ prev.group # next.group =>
                    \A r \in at : reports[r].messageId = MESSAGE_ID_GROUP
               /\ (prev.group = next.group /\ prev.depth # next.depth) =>
                    \A r \in at : reports[r].messageId = MESSAGE_ID_DEPTH

\* a pair out of group order whose depths ascend: only the group-order
\* violation is reported
C12_Witness ==
  /\ visited = 2
  /\ PairIs(2, <<".", "/", "a">>, <<".", ".", "/", "a">>)
  /\ Cardinality(OrderReportsAt(NodeAt(doc, 2))) = 1
  /\ \A r \in OrderReportsAt(NodeAt(doc, 2)) : reports[r].messageId = MESSAGE_ID_GROUP

\* C13: an alphabetize value outside the four recognised names makes create
\* throw, with no statement scanned and no diagnostic reported, then or
\* later; a recognised value selects its comparator and an absent option
\* selects case-sensitive.
C13_ConfigurationError ==
  pc # "new" =>
    LET given == options.alphabetize
        known == {"case-sensitive", "case-insensitive", "parts", "off"}
    IN /\ given = <<>> => (pc = "ready" /\ alphabetizeOption = "case-sensitive")
       /\ (given # <<>> /\ given[1] \in known) =>
            (pc = "ready" /\ alphabetizeOption = given[1])
       /\ (given # <<>> /\ given[1] \notin known) =>
            (pc = "threw" /\ visited = 0 /\ reports = <<>> /\ orderPrev = Null)

C13_Witness ==
  /\ pc = "threw"
  /\ options.alphabetize = <<"alphabetical">>
  /\ visited = 0
  /\ reports = <<>>

IsOrderReport(r) == r.messageId \in OrderIds

\* the order diagnostics of the statement visited last, in report order
LastOrderReports ==
  LET at == {r \in 1..Len(reports) : reports[r].next = NodeAt(doc, visited)}
      all == [k \in 1..Cardinality(at) |->
                reports[CHOOSE r \in at : Cardinality({q \in at : q < r}) = k - 1]]
  IN SelectSeq(all, IsOrderReport)

\* C14: with allowBlankLines true no blank-lines diagnostic is reported and
\* the order diagnostics are those reported with allowBlankLines false; with
\* allowBlankLines false, which an absent option means, a statement that
\* starts on the line after the previous one ends yields no blank-lines
\* diagnostic.
C14_AllowBlankLines ==
  pc = "ready" =>
    /\ options.allowBlankLines = <<>> => ~allowBlankLines
    /\ allowBlankLines =>
         \A r \in 1..Len(reports) : reports[r].messageId # MESSAGE_ID_BLANKLINES
    /\ visited >= 1 =>
         LastOrderReports =
           SelectSeq(RuleReports(doc,
                                 IF visited = 1 THEN Null ELSE <<KeyAt(doc, visited - 1)>>,
                                 IF visited = 1 THEN 0 ELSE NodeAt(doc, visited - 1),
                                 NodeAt(doc, visited), KeyAt(doc, visited),
                                 alphabetizeOption, FALSE, partsSeen),
                     IsOrderReport)
    /\ \A i \in 2..visited :
         (~allowBlankLines
            /\ LineOf(doc, NodeAt(doc, i)) = LineOf(doc, NodeAt(doc, i - 1)) + 1)
           => BlankReportsAt(NodeAt(doc, i)) = {}

\* allowBlankLines is true, a blank line separates two statements out of
\* order: the order diagnostic is reported, the blank-lines one is not
C14_Witness ==
  /\ pc = "ready"
  /\ allowBlankLines
  /\ visited = 2
  /\ doc = <<Stmt(<<".", "/", "b">>), NL, NL, Stmt(<<".", "/", "a">>)>>
  /\ Len(reports) = 1
  /\ reports[1].messageId = MESSAGE_ID_ORDER

\* the statements visited so far that have a token at position p
WithPart(p) == {i \in 1..visited : Len(KeyAt(doc, i).parts) >= p}

\* the first visited statement that holds token t at position p
FirstSeen(p, t) ==
  CHOOSE i \in WithPart(p) :
    /\ KeyAt(doc, i).parts[p] = t
    /\ \A j \in WithPart(p) : KeyAt(doc, j).parts[p] = t => i <= j

\* C15: after any prefix of a scan, the table of every token position holds
\* exactly the distinct tokens seen at that position, ranked 0..n-1 in the
\* order of their first appearance.
C15_FirstSeenTable ==
  pc = "ready" =>
    /\ \A p \in 1..Len(partsSeen) : WithPart(p) # {}
    /\ \A i \in 1..visited : Len(KeyAt(doc, i).parts) <= Len(partsSeen)
    /\ \A p \in 1..Len(partsSeen) :
         LET tokens == {KeyAt(doc, i).parts[p] : i \in WithPart(p)}
         IN /\ DOMAIN partsSeen[p] = tokens
            /\ partsMaxDepth[p] = Cardinality(tokens)
            /\ \A t \in tokens :
                 partsSeen[p][t] =
                   Cardinality({u \in tokens : FirstSeen(p, u) < FirstSeen(p, t)})

\* the positions at which partsComparator reads the tables for prev and next:
\* those from the first differing one on, until it returns
Compared(prev, next, seen) ==
  LET Differ(q) == \E r \in 1..q : prev.parts[r] # next.parts[r]
  IN {p \in 1..Min(Len(prev.parts), Len(next.parts)) :
        /\ Differ(p)
        /\ \A q \in 1..(p - 1) :
             Differ(q) => ~ScoreLess(Score(seen, q, prev.parts[q]),
                                     Score(seen, q, next.parts[q]))}

\* C16: under the parts comparator, every token that the comparison of the
\* pair (previous, current) looks up has a rank recorded in the table of its
\* position, the current statement's tokens having been inserted before.
C16_SeededBeforeCompare ==
  (/\ pc = "ready"
   /\ alphabetizeOption = COMPARATOR_CASE_PARTS
   /\ visited >= 2
   /\ KeyAt(doc, visited - 1).group = KeyAt(doc, visited).group
   /\ KeyAt(doc, visited - 1).depth = KeyAt(doc, visited).depth) =>
    LET prev == KeyAt(doc, visited - 1)
        next == KeyAt(doc, visited)
    IN \A p \in Compared(prev, next, partsSeen) :
         /\ p <= Len(partsSeen)
         /\ prev.parts[p] \in DOMAIN partsSeen[p]
         /\ next.parts[p] \in DOMAIN partsSeen[p]

\* the diagnostics of the current scan for the i-th statement, in report order
ReportsAt(i) ==
  LET At(r) == r.next = NodeAt(doc, i)
  IN SelectSeq(reports, At)

\* what a call of runRule that knows only statements i-1 and i reports for
\* statement i: the lookback is statement i-1 and the first-seen tables are empty
PairReports(i) ==
  RuleReports(doc,
              IF i = 1 THEN Null ELSE <<KeyAt(doc, i - 1)>>,
              IF i = 1 THEN 0 ELSE NodeAt(doc, i - 1),
              NodeAt(doc, i), KeyAt(doc, i),
              alphabetizeOption, allowBlankLines, <<>>)

\* C17: after every statement, reported or not, the lookback state is that
\* statement; and under the case-sensitive, case-insensitive and off
\* comparators the diagnostics of statement i are determined by statements
\* i-1 and i alone, whatever was scanned before them.
C17_AdjacentPairState ==
  (pc = "ready" /\ visited >= 1) =>
    /\ orderPrev = <<KeyAt(doc, visited)>>
    /\ nodePrev = NodeAt(doc, visited)
    /\ alphabetizeOption # COMPARATOR_CASE_PARTS =>
         \A i \in 1..visited : ReportsAt(i) = PairReports(i)

\* a third statement has been scanned after a second one that was reported
C17_Witness ==
  /\ pc = "ready"
  /\ alphabetizeOption = COMPARATOR_CASE_SENSITIVE
  /\ visited = 3
  /\ OrderReportsAt(NodeAt(doc, 2)) # {}
  /\ OrderReportsAt(NodeAt(doc, 3)) # {}
  /\ orderPrev = <<KeyAt(doc, 3)>>

\* key a comes after key b: a later group, or in the same group a smaller
\* depth, or at the same depth a greater name
KeyAfter(a, b) ==
  \/ a.group > b.group
  \/ a.group = b.group /\ a.depth < b.depth
  \/ a.group = b.group /\ a.depth = b.depth /\ StrLess(b.name, a.name)

ScanComplete == pc = "ready" /\ visited = Len(Stmts(doc))

NoOrderReport == \A r \in 1..Len(reports) : ~IsOrderReport(reports[r])

\* C18: under the case-sensitive comparator, a complete scan that reports no
\* order diagnostic has seen a sorted sequence: for all i < j the key of
\* statement i is not after the key of statement j.
C18_AdjacentImpliesGlobal ==
  (ScanComplete /\ alphabetizeOption = COMPARATOR_CASE_SENSITIVE /\ NoOrderReport) =>
    \A i \in 1..visited : \A j \in (i + 1)..visited :
      ~KeyAfter(KeyAt(doc, i), KeyAt(doc, j))

\* three statements with three different keys passed the scan unreported
C18_Witness ==
  /\ ScanComplete
  /\ alphabetizeOption = COMPARATOR_CASE_SENSITIVE
  /\ NoOrderReport
  /\ visited = 3
  /\ KeyAt(doc, 1).group = KeyAt(doc, 3).group
  /\ KeyAt(doc, 1).depth = KeyAt(doc, 3).depth
  /\ KeyAt(doc, 1).name # KeyAt(doc, 2).name
  /\ KeyAt(doc, 2).name # KeyAt(doc, 3).name

\* import statements alone, one to a line: no comments, no blank lines
PlainDoc(d) ==
  /\ Len(d) % 2 = 1
  /\ \A k \in 1..Len(d) : d[k].t = (IF k % 2 = 1 THEN "stmt" ELSE "nl")

\* C19: on comment-free, newline-separated statements, scanning and applying
\* the swap of one reported order violation, again and again, ends in a text
\* that reports no order violation; so no swap fix gives back the text that
\* the swap fix before it was applied to, under any comparator.
C19_SwapFixesConverge ==
  [][(ApplySwapFix /\ fixed.kind = "swap" /\ PlainDoc(fixed.before))
       => doc' # fixed.before]_vars

\* C20: applying the collapse edit of a reported blank-lines violation changes
\* the text and leaves strictly fewer lines between prev and next than before.
C20_CollapseMakesProgress ==
  fixed.kind = "collapse" =>
    LET before == fixed.before
        j == OrdinalOf(before, fixed.prev)
        first == NodeAt(doc, j)
        second == NodeAt(doc, j + 1)
    IN /\ doc # before
       /\ Cardinality(LinesBetween(doc, first, second))
            < Cardinality(LinesBetween(before, fixed.prev, fixed.next))

====
